---- MODULE Spec2Model ----
(***************************************************************************)
(* Bloom filters of nervosnetwork/bloom-filters: the bit-packed bucket     *)
(* array (buckets.rs), the double-hashing kernel (hash.rs) and the         *)
(* classic, counting and stable filters built on them.                     *)
(*                                                                         *)
(* A machine word is modelled as the set of its set bit positions          *)
(* (a subset of 0..63), so that masks, shifts and the split of a bucket    *)
(* over two words are those of the code.  A 64-bit number that takes part  *)
(* in wrapping arithmetic (digest, seed, random draw) is a tuple of four   *)
(* 16-bit limbs, least significant first.  The model is of a 64-bit        *)
(* target: usize, the heap bucket array's Word, is 64 bits wide.           *)
(***************************************************************************)
EXTENDS Integers, Sequences, FiniteSets, TLC

(***************************************************************************)
(* Words                                                                   *)
(***************************************************************************)
BYTES_PER_WORD == 8
BITS_PER_WORD == BYTES_PER_WORD * 8

Bits == 0 .. (BITS_PER_WORD - 1)

\* the word 0
WZero == {}
\* a & b, a | b, !a on words
WAnd(a, b) == a \cap b
WOr(a, b) == a \cup b
WNot(a) == Bits \ a
\* a << s and a >> s (bits shifted beyond the word are lost)
Shl(a, s) == {b + s : b \in {c \in a : c + s < BITS_PER_WORD}}
Shr(a, s) == {b - s : b \in {c \in a : c >= s}}
\* (1 << length) - 1
Mask(length) == 0 .. (length - 1)

\* 2^e for e = 0..16
Pow2Tab == <<1, 2, 4, 8, 16, 32, 64, 128, 256, 512, 1024, 2048, 4096, 8192,
             16384, 32768, 65536>>
Pow2(e) == Pow2Tab[e + 1]

\* byte as Word
FromU8(v) == {i \in 0 .. 7 : (v \div Pow2(i)) % 2 = 1}
\* word as u8 (truncation to the low 8 bits)
RECURSIVE SumBits(_)
SumBits(s) == IF s = {} THEN 0
              ELSE LET b == CHOOSE x \in s : TRUE IN Pow2(b) + SumBits(s \ {b})
ToU8(w) == SumBits(w \cap (0 .. 7))

(***************************************************************************)
(* Buckets (src/src/buckets.rs).  A bucket array is the record             *)
(* [data, count, bucket_size, max]; data maps 0..W-1 to words.             *)
(***************************************************************************)
compute_word_num(count, bucket_size) ==
    (count * bucket_size + BITS_PER_WORD - 1) \div BITS_PER_WORD

\* (1u8 << bucket_size) - 1
MaxOf(bucket_size) == Pow2(bucket_size) - 1

\* the precondition asserted by Buckets::new
Buckets_new_ok(count, bucket_size) == bucket_size < 8

Buckets_new(count, bucket_size) ==
    [data |-> [w \in 0 .. (compute_word_num(count, bucket_size) - 1) |-> WZero],
     count |-> count,
     bucket_size |-> bucket_size,
     max |-> MaxOf(bucket_size)]

\* the word indices that get_word / set_word index for a field
Touched(offset, length) ==
    IF length = 0 THEN {offset \div BITS_PER_WORD}
    ELSE (offset \div BITS_PER_WORD) .. ((offset + length - 1) \div BITS_PER_WORD)

\* true when get / set of the bucket index no word outside data
InStorage(B, bucket) ==
    Touched(bucket * B.bucket_size, B.bucket_size) \subseteq DOMAIN B.data

\* a read that shifts the word down and does not mask the field
get_word_no_mask(data, offset, length) ==
    Shr(data[offset \div BITS_PER_WORD], offset % BITS_PER_WORD)

RECURSIVE get_word(_, _, _)
get_word(data, offset, length) ==
    LET word_index == offset \div BITS_PER_WORD
        word_offset == offset % BITS_PER_WORD
    IN  IF word_offset + length > BITS_PER_WORD
        THEN LET remain == BITS_PER_WORD - word_offset
             IN  WOr(get_word(data, offset, remain),
                     Shl(get_word(data, offset + remain, length - remain), remain))
        ELSE LET bit_mask == Mask(length)
             IN  Shr(WAnd(data[word_index], Shl(bit_mask, word_offset)), word_offset)

\* a write that replaces the whole word by the field
set_word_whole(data, offset, length, word) ==
    [data EXCEPT ![offset \div BITS_PER_WORD] =
        Shl(WAnd(word, Mask(length)), offset % BITS_PER_WORD)]

RECURSIVE set_word(_, _, _, _)
set_word(data, offset, length, word) ==
    LET word_index == offset \div BITS_PER_WORD
        word_offset == offset % BITS_PER_WORD
    IN  IF word_offset + length > BITS_PER_WORD
        THEN LET remain == BITS_PER_WORD - word_offset
             IN  set_word(set_word(data, offset, remain, word),
                          offset + remain, length - remain, Shr(word, remain))
        ELSE LET bit_mask == Mask(length)
                 cleared == WAnd(data[word_index], WNot(Shl(bit_mask, word_offset)))
             IN  [data EXCEPT ![word_index] =
                     WOr(cleared, Shl(WAnd(word, bit_mask), word_offset))]

Buckets_get(B, bucket) ==
    ToU8(get_word(B.data, bucket * B.bucket_size, B.bucket_size))

\* set that does not clamp the byte to max
Buckets_set_no_clamp(B, bucket, byte) ==
    [B EXCEPT !.data = set_word(B.data, bucket * B.bucket_size, B.bucket_size, FromU8(byte))]

Buckets_set(B, bucket, byte) ==
    LET offset == bucket * B.bucket_size
        length == B.bucket_size
        word == FromU8(IF byte > B.max THEN B.max ELSE byte)
    IN  [B EXCEPT !.data = set_word(B.data, offset, length, word)]

\* reset that clears every word but the last
Buckets_reset_but_last(B) ==
    [B EXCEPT !.data = [w \in DOMAIN B.data |->
        IF w + 1 = Cardinality(DOMAIN B.data) THEN B.data[w] ELSE WZero]]

Buckets_reset(B) == [B EXCEPT !.data = [w \in DOMAIN B.data |-> WZero]]

\* 8-bit two's complement wrap of an exact sum (i8 arithmetic without overflow checks)
I8Wrap(x) == ((x + 128) % 256) - 128

\* get(bucket) as i8 + delta leaves the i8 range (the get is at most 127)
increment_overflows(B, bucket, delta) == Buckets_get(B, bucket) + delta > 127

\* Buckets::increment where the i8 addition wraps (overflow checks off)
Buckets_increment(B, bucket, delta) ==
    LET v == I8Wrap(Buckets_get(B, bucket) + delta)
        value == IF v < 0 THEN 0 ELSE IF v > B.max THEN B.max ELSE v
    IN  Buckets_set(B, bucket, value)

\* raw_data that writes every word most significant byte first
Buckets_raw_data_be(B) ==
    [i \in 1 .. (Cardinality(DOMAIN B.data) * BYTES_PER_WORD) |->
        ToU8(Shr(B.data[(i - 1) \div BYTES_PER_WORD],
                 8 * (BYTES_PER_WORD - 1 - ((i - 1) % BYTES_PER_WORD))))]

\* raw_data that returns only the bytes the buckets occupy
Buckets_raw_data_trimmed(B) ==
    [i \in 1 .. ((B.count * B.bucket_size + 7) \div 8) |->
        ToU8(Shr(B.data[(i - 1) \div BYTES_PER_WORD], 8 * ((i - 1) % BYTES_PER_WORD)))]

\* the bytes of the words, each word little-endian, in storage order (1-indexed)
Buckets_raw_data(B) ==
    [i \in 1 .. (Cardinality(DOMAIN B.data) * BYTES_PER_WORD) |->
        ToU8(Shr(B.data[(i - 1) \div BYTES_PER_WORD], 8 * ((i - 1) % BYTES_PER_WORD)))]

\* the two assertions of Buckets::with_raw_data
\* a length check that accepts any buffer of whole words that is long enough
Buckets_with_raw_data_ok_lenient(count, bucket_size, raw_data) ==
    /\ bucket_size < 8
    /\ Len(raw_data) % BYTES_PER_WORD = 0
    /\ compute_word_num(count, bucket_size) * 8 <= Len(raw_data)

Buckets_with_raw_data_ok(count, bucket_size, raw_data) ==
    /\ bucket_size < 8
    /\ compute_word_num(count, bucket_size) * 8 = Len(raw_data)

RECURSIVE LeWord(_, _, _)
\* the word read from 8 bytes starting after byte `base`, byte j at bits 8j..8j+7
LeWord(raw_data, base, j) ==
    IF j = BYTES_PER_WORD THEN WZero
    ELSE WOr(Shl(FromU8(raw_data[base + j + 1]), 8 * j), LeWord(raw_data, base, j + 1))

\* with_raw_data that reads every word most significant byte first
Buckets_with_raw_data_be(count, bucket_size, raw_data) ==
    LET swapped == [i \in 1 .. Len(raw_data) |->
                      raw_data[((i - 1) \div BYTES_PER_WORD) * BYTES_PER_WORD
                               + (BYTES_PER_WORD - 1 - ((i - 1) % BYTES_PER_WORD)) + 1]]
    IN  [data |-> [w \in 0 .. ((Len(raw_data) + BYTES_PER_WORD - 1) \div BYTES_PER_WORD - 1) |->
                      LeWord(swapped, w * BYTES_PER_WORD, 0)],
         count |-> count,
         bucket_size |-> bucket_size,
         max |-> MaxOf(bucket_size)]

Buckets_with_raw_data(count, bucket_size, raw_data) ==
    [data |-> [w \in 0 .. ((Len(raw_data) + BYTES_PER_WORD - 1) \div BYTES_PER_WORD - 1) |->
                  LeWord(raw_data, w * BYTES_PER_WORD, 0)],
     count |-> count,
     bucket_size |-> bucket_size,
     max |-> MaxOf(bucket_size)]

RECURSIVE OrBytes(_, _, _, _)
\* the fold of update over the bytes of one chunk: acc | byte << (offset * 8),
\* for the bytes the chunk holds (the last chunk of a buffer may be short)
OrBytes(acc, raw_data, base, offset) ==
    IF offset = BYTES_PER_WORD \/ base + offset >= Len(raw_data) THEN acc
    ELSE OrBytes(WOr(acc, Shl(FromU8(raw_data[base + offset + 1]), offset * BYTES_PER_WORD)),
                 raw_data, base, offset + 1)

\* update: the backing words zipped with the 8-byte chunks of the buffer, each
\* covered word OR-ed with its chunk; words past the buffer are left alone.
\* (classic::Filter::update calls Buckets::update, which buckets.rs does not
\* define; this is the documented OR-merge, in the shape of ConstBuckets::update.)
Buckets_update(B, raw_data) ==
    [B EXCEPT !.data = [w \in DOMAIN B.data |->
        IF w * BYTES_PER_WORD < Len(raw_data)
        THEN OrBytes(B.data[w], raw_data, w * BYTES_PER_WORD, 0)
        ELSE B.data[w]]]

(***************************************************************************)
(* 64-bit unsigned numbers as four 16-bit limbs, least significant first   *)
(* (usize is taken to be 64 bits wide, as BYTES_PER_WORD = 8 says).        *)
(***************************************************************************)
LimbBase == Pow2(16)

U64(x) == <<x % LimbBase, x \div LimbBase, 0, 0>>
U64Max == <<LimbBase - 1, LimbBase - 1, LimbBase - 1, LimbBase - 1>>

\* a + b as an exact sum: the limbs of the low 64 bits, and the carry out
AddCarry(a, b) ==
    LET s1 == a[1] + b[1]
        s2 == a[2] + b[2] + (s1 \div LimbBase)
        s3 == a[3] + b[3] + (s2 \div LimbBase)
        s4 == a[4] + b[4] + (s3 \div LimbBase)
    IN  [sum |-> <<s1 % LimbBase, s2 % LimbBase, s3 % LimbBase, s4 % LimbBase>>,
         carry |-> s4 \div LimbBase]

wrapping_add(a, b) == AddCarry(a, b).sum
add_overflows(a, b) == AddCarry(a, b).carry > 0

\* a.wrapping_mul(c) for a small multiplier c
wrapping_mul(a, c) ==
    LET s1 == a[1] * c
        s2 == a[2] * c + (s1 \div LimbBase)
        s3 == a[3] * c + (s2 \div LimbBase)
        s4 == a[4] * c + (s3 \div LimbBase)
    IN  <<s1 % LimbBase, s2 % LimbBase, s3 % LimbBase, s4 % LimbBase>>

\* a % n for a modulus 0 < n < 2^15
wrapping_rem(a, n) ==
    LET r4 == a[4] % n
        r3 == (r4 * LimbBase + a[3]) % n
        r2 == (r3 * LimbBase + a[2]) % n
    IN  (r2 * LimbBase + a[1]) % n

(***************************************************************************)
(* Hash kernel (src/src/hash.rs).  An item is identified with the 64-bit   *)
(* digest its hasher produces.                                             *)
(***************************************************************************)
\* the smallest k with fp * 2^k >= 1, which is ceil(|log2 fp|); fp = <<num, den>>
RECURSIVE KFrom(_, _)
KFrom(fp, k) == IF fp[1] * Pow2(k) >= fp[2] THEN k ELSE KFrom(fp, k + 1)
compute_k_num(fp_rate) == KFrom(fp_rate, 0)

fp_rate_ok(fp_rate) == 0 < fp_rate[1] /\ fp_rate[1] < fp_rate[2]

\* DefaultHashIter::new: h1 = low 32 bits, h2 = high 32 bits of the digest
H1(hash) == <<hash[1], hash[2], 0, 0>>
H2(hash) == <<hash[3], hash[4], 0, 0>>

\* next that leaves the seed out
hash_next_unseeded(hk, hash, counter) ==
    wrapping_rem(wrapping_add(H1(hash), wrapping_mul(H2(hash), counter)), hk.n)

\* DefaultHashIter::next for the given counter
hash_next(hk, hash, counter) ==
    wrapping_rem(
        wrapping_add(wrapping_add(hk.hash_seed, H1(hash)), wrapping_mul(H2(hash), counter)),
        hk.n)

\* hash_iter: the k probe indices of an item, in order
hash_iter(hk, item) == [i \in 1 .. hk.k |-> hash_next(hk, item, i - 1)]

\* the remainder by n = 0 panics as soon as one index is asked for
hash_iter_ok(hk) == hk.k = 0 \/ hk.n > 0

\* with_k: the kernel of a filter of n buckets probed k times
with_k(hash_seed, k, n) == [k |-> k, n |-> n, hash_seed |-> hash_seed]

\* every probe of the item indexes words inside the storage
ProbesInStorage(B, hk, item) ==
    /\ hash_iter_ok(hk)
    /\ LET probes == hash_iter(hk, item)
       IN  \A i \in 1 .. hk.k : InStorage(B, probes[i])

(***************************************************************************)
(* Construction parameters.  fp_rate is a fraction <<num, den>>.  The      *)
(* f64 expressions of compute_m_num and compute_p_num are tabulated for    *)
(* the rates and shapes the model constructs.                              *)
(***************************************************************************)
\* |ln fp_rate| / (ln 2)^2 in millionths, rounded down
LnRatio(fp_rate) ==
    CASE fp_rate = <<1, 2>> -> 1442695
      [] fp_rate = <<1, 4>> -> 2885390
      [] fp_rate = <<3, 100>> -> 7298440
      [] fp_rate = <<7, 10>> -> 742372
      [] fp_rate = <<1, 1>> -> 0
      [] fp_rate = <<3, 2>> -> 843922
      [] fp_rate = <<1, 10000>> -> 19170116

compute_m_num_ok(items_count, fp_rate) == items_count > 0 /\ fp_rate_ok(fp_rate)

\* (items_count * |ln fp_rate| / LN_2_2).ceil()
compute_m_num(items_count, fp_rate) ==
    (items_count * LnRatio(fp_rate) + 999999) \div 1000000

\* Filter::new of the stable filter with k left as computed
stable_k_unclamped(m, fp_rate) == compute_k_num(fp_rate)

\* Filter::new of the stable filter: k clamped to m, and to 1 when it is 0
stable_k(m, fp_rate) ==
    LET k == compute_k_num(fp_rate)
    IN  IF k > m THEN m ELSE IF k = 0 THEN 1 ELSE k

\* (1.0 / denom).ceil() of compute_p_num evaluated in f64, for m up to 5,
\* widths 1 and 2, the rates 1/2, 1/4 and 1, and k as computed from the rate
\* or as clamped: a finite number, an infinity (denom = 0, when k = m) or NaN
p_ceil(m, k, d, fp_rate) ==
    CASE <<m, k, d, fp_rate>> = <<0, 0, 1, <<1, 2>>>> -> <<"nan", 0>>
      [] <<m, k, d, fp_rate>> = <<0, 1, 1, <<1, 2>>>> -> <<"finite", 0>>
      [] <<m, k, d, fp_rate>> = <<0, 0, 1, <<1, 4>>>> -> <<"nan", 0>>
      [] <<m, k, d, fp_rate>> = <<0, 2, 1, <<1, 4>>>> -> <<"finite", 0>>
      [] <<m, k, d, fp_rate>> = <<0, 0, 1, <<1, 1>>>> -> <<"nan", 0>>
      [] <<m, k, d, fp_rate>> = <<0, 1, 1, <<1, 1>>>> -> <<"finite", 0>>
      [] <<m, k, d, fp_rate>> = <<0, 0, 2, <<1, 2>>>> -> <<"nan", 0>>
      [] <<m, k, d, fp_rate>> = <<0, 1, 2, <<1, 2>>>> -> <<"finite", 0>>
      [] <<m, k, d, fp_rate>> = <<0, 0, 2, <<1, 4>>>> -> <<"nan", 0>>
      [] <<m, k, d, fp_rate>> = <<0, 2, 2, <<1, 4>>>> -> <<"finite", 0>>
      [] <<m, k, d, fp_rate>> = <<0, 0, 2, <<1, 1>>>> -> <<"nan", 0>>
      [] <<m, k, d, fp_rate>> = <<0, 1, 2, <<1, 1>>>> -> <<"finite", 0>>
      [] <<m, k, d, fp_rate>> = <<1, 1, 1, <<1, 2>>>> -> <<"inf", 0>>
      [] <<m, k, d, fp_rate>> = <<1, 1, 1, <<1, 4>>>> -> <<"inf", 0>>
      [] <<m, k, d, fp_rate>> = <<1, 2, 1, <<1, 4>>>> -> <<"finite", -2>>
      [] <<m, k, d, fp_rate>> = <<1, 0, 1, <<1, 1>>>> -> <<"finite", 0>>
      [] <<m, k, d, fp_rate>> = <<1, 1, 1, <<1, 1>>>> -> <<"nan", 0>>
      [] <<m, k, d, fp_rate>> = <<1, 1, 2, <<1, 2>>>> -> <<"inf", 0>>
      [] <<m, k, d, fp_rate>> = <<1, 1, 2, <<1, 4>>>> -> <<"inf", 0>>
      [] <<m, k, d, fp_rate>> = <<1, 2, 2, <<1, 4>>>> -> <<"finite", -7>>
      [] <<m, k, d, fp_rate>> = <<1, 0, 2, <<1, 1>>>> -> <<"finite", 0>>
      [] <<m, k, d, fp_rate>> = <<1, 1, 2, <<1, 1>>>> -> <<"nan", 0>>
      [] <<m, k, d, fp_rate>> = <<2, 1, 1, <<1, 2>>>> -> <<"finite", 2>>
      [] <<m, k, d, fp_rate>> = <<2, 2, 1, <<1, 4>>>> -> <<"inf", 0>>
      [] <<m, k, d, fp_rate>> = <<2, 0, 1, <<1, 1>>>> -> <<"finite", 0>>
      [] <<m, k, d, fp_rate>> = <<2, 1, 1, <<1, 1>>>> -> <<"finite", 0>>
      [] <<m, k, d, fp_rate>> = <<2, 1, 2, <<1, 2>>>> -> <<"finite", 8>>
      [] <<m, k, d, fp_rate>> = <<2, 2, 2, <<1, 4>>>> -> <<"inf", 0>>
      [] <<m, k, d, fp_rate>> = <<2, 0, 2, <<1, 1>>>> -> <<"finite", 0>>
      [] <<m, k, d, fp_rate>> = <<2, 1, 2, <<1, 1>>>> -> <<"finite", 0>>
      [] <<m, k, d, fp_rate>> = <<3, 1, 1, <<1, 2>>>> -> <<"finite", 2>>
      [] <<m, k, d, fp_rate>> = <<3, 2, 1, <<1, 4>>>> -> <<"finite", 6>>
      [] <<m, k, d, fp_rate>> = <<3, 0, 1, <<1, 1>>>> -> <<"finite", 0>>
      [] <<m, k, d, fp_rate>> = <<3, 1, 1, <<1, 1>>>> -> <<"finite", 0>>
      [] <<m, k, d, fp_rate>> = <<3, 1, 2, <<1, 2>>>> -> <<"finite", 6>>
      [] <<m, k, d, fp_rate>> = <<3, 2, 2, <<1, 4>>>> -> <<"finite", 24>>
      [] <<m, k, d, fp_rate>> = <<3, 0, 2, <<1, 1>>>> -> <<"finite", 0>>
      [] <<m, k, d, fp_rate>> = <<3, 1, 2, <<1, 1>>>> -> <<"finite", 0>>
      [] <<m, k, d, fp_rate>> = <<4, 1, 1, <<1, 2>>>> -> <<"finite", 2>>
      [] <<m, k, d, fp_rate>> = <<4, 2, 1, <<1, 4>>>> -> <<"finite", 4>>
      [] <<m, k, d, fp_rate>> = <<4, 0, 1, <<1, 1>>>> -> <<"finite", 0>>
      [] <<m, k, d, fp_rate>> = <<4, 1, 1, <<1, 1>>>> -> <<"finite", 0>>
      [] <<m, k, d, fp_rate>> = <<4, 1, 2, <<1, 2>>>> -> <<"finite", 6>>
      [] <<m, k, d, fp_rate>> = <<4, 2, 2, <<1, 4>>>> -> <<"finite", 16>>
      [] <<m, k, d, fp_rate>> = <<4, 0, 2, <<1, 1>>>> -> <<"finite", 0>>
      [] <<m, k, d, fp_rate>> = <<4, 1, 2, <<1, 1>>>> -> <<"finite", 0>>
      [] <<m, k, d, fp_rate>> = <<5, 1, 1, <<1, 2>>>> -> <<"finite", 2>>
      [] <<m, k, d, fp_rate>> = <<5, 2, 1, <<1, 4>>>> -> <<"finite", 4>>
      [] <<m, k, d, fp_rate>> = <<5, 0, 1, <<1, 1>>>> -> <<"finite", 0>>
      [] <<m, k, d, fp_rate>> = <<5, 1, 1, <<1, 1>>>> -> <<"finite", 0>>
      [] <<m, k, d, fp_rate>> = <<5, 1, 2, <<1, 2>>>> -> <<"finite", 5>>
      [] <<m, k, d, fp_rate>> = <<5, 2, 2, <<1, 4>>>> -> <<"finite", 13>>
      [] <<m, k, d, fp_rate>> = <<5, 0, 2, <<1, 1>>>> -> <<"finite", 0>>
      [] <<m, k, d, fp_rate>> = <<5, 1, 2, <<1, 1>>>> -> <<"finite", 0>>

\* compute_p_num as a 64-bit number: the cast of NaN is 0 and the cast of an
\* infinity is usize::MAX
compute_p_num_usize(m, k, d, fp_rate) ==
    LET pc == p_ceil(m, k, d, fp_rate)
    IN  CASE pc[1] = "nan" -> U64(0)
          [] pc[1] = "inf" -> U64Max
          [] pc[2] <= 0 -> U64(1)
          [] OTHER -> U64(pc[2])

\* compute_p_num(m, k, d, fp_rate) where the result is finite
compute_p_num(m, k, d, fp_rate) ==
    LET pc == p_ceil(m, k, d, fp_rate)
    IN  IF pc[1] = "nan" THEN 0 ELSE IF pc[2] <= 0 THEN 1 ELSE pc[2]

(***************************************************************************)
(* Filters                                                                 *)
(***************************************************************************)
RECURSIVE SetProbes(_, _, _, _)
\* for_each(|i| buckets.set(i, byte)) over the probes from position i on
SetProbes(B, probes, i, byte) ==
    IF i > Len(probes) THEN B
    ELSE SetProbes(Buckets_set(B, probes[i], byte), probes, i + 1, byte)

RECURSIVE IncrementProbes(_, _, _, _)
\* for_each(|i| buckets.increment(i, delta)): the array with wrapping i8
\* additions, and whether one of the additions overflowed
IncrementProbes(B, probes, i, delta) ==
    IF i > Len(probes) THEN [b |-> B, overflow |-> FALSE]
    ELSE LET rest == IncrementProbes(Buckets_increment(B, probes[i], delta),
                                     probes, i + 1, delta)
         IN  [b |-> rest.b,
              overflow |-> increment_overflows(B, probes[i], delta) \/ rest.overflow]

\* insert that starts at the second probe
Classic_insert_skip_first(B, hk, item) == SetProbes(B, hash_iter(hk, item), 2, 1)

\* insert into a cleared array
Classic_insert_cleared(B, hk, item) == SetProbes(Buckets_reset(B), hash_iter(hk, item), 1, 1)

Classic_insert(B, hk, item) == SetProbes(B, hash_iter(hk, item), 1, 1)

Classic_contains(B, hk, item) ==
    LET probes == hash_iter(hk, item)
    IN  \A i \in 1 .. hk.k : Buckets_get(B, probes[i]) = 1

\* insert that starts at the second probe
Counting_insert_skip_first(B, hk, item) == IncrementProbes(B, hash_iter(hk, item), 2, 1)

\* counting::Filter::insert
Counting_insert(B, hk, item) == IncrementProbes(B, hash_iter(hk, item), 1, 1)

\* remove that starts at the second probe
Counting_remove_skip_first(B, hk, item) == IncrementProbes(B, hash_iter(hk, item), 2, -1)

\* remove that leaves the array alone unless every probe bucket is above 0
Counting_remove_if_contained(B, hk, item) ==
    IF \A i \in 1 .. hk.k : Buckets_get(B, hash_iter(hk, item)[i]) > 0
    THEN IncrementProbes(B, hash_iter(hk, item), 1, -1)
    ELSE [b |-> B, overflow |-> FALSE]

Counting_remove(B, hk, item) == IncrementProbes(B, hash_iter(hk, item), 1, -1)

\* contains that accepts a bucket at 0
Counting_contains_ge(B, hk, item) ==
    LET probes == hash_iter(hk, item)
    IN  \A i \in 1 .. hk.k : Buckets_get(B, probes[i]) >= 0

\* counting::Filter::contains
Counting_contains(B, hk, item) ==
    LET probes == hash_iter(hk, item)
    IN  \A i \in 1 .. hk.k : Buckets_get(B, probes[i]) > 0

\* the decay indices (r + i) % len for i = 0..p-1, with a wrapping r + i
decay_buckets(B, p, r) ==
    [j \in 1 .. p |-> wrapping_rem(wrapping_add(r, U64(j - 1)), B.count)]

\* r + i overflows usize for some i < p
decay_overflows(p, r) == \E i \in 0 .. (p - 1) : add_overflows(r, U64(i))

\* Filter::decrement with the draw r
Stable_decrement(B, p, r) == IncrementProbes(B, decay_buckets(B, p, r), 1, -1).b

\* insert that sets the probes first and decays afterwards
Stable_insert_decay_last(B, hk, p, r, item) ==
    Stable_decrement(SetProbes(B, hash_iter(hk, item), 1, B.max), p, r)

\* Filter::insert of the stable filter with the draw r
Stable_insert(B, hk, p, r, item) ==
    SetProbes(Stable_decrement(B, p, r), hash_iter(hk, item), 1, B.max)

\* stable::Filter::contains
Stable_contains(B, hk, item) ==
    LET probes == hash_iter(hk, item)
    IN  \A i \in 1 .. hk.k : Buckets_get(B, probes[i]) > 0

\* contains of a filter of the kind
Contains(knd, B, hk, item) ==
    CASE knd = "classic" -> Classic_contains(B, hk, item)
      [] knd = "counting" -> Counting_contains(B, hk, item)
      [] OTHER -> Stable_contains(B, hk, item)

(***************************************************************************)
(* Bounds and inputs                                                       *)
(***************************************************************************)
\* how many distinct items (digests) the callers insert
NumItems == 2

\* digests: one whose probes all coincide (h2 = 0), one whose probes step by
\* 3 from 70, and ones with the largest halves
Digest(i) ==
    CASE i = 1 -> <<1, 0, 0, 0>>
      [] i = 2 -> <<70, 0, 3, 0>>
      [] i = 3 -> U64Max
      [] OTHER -> <<i, 0, i, 0>>
Items == {Digest(i) : i \in 1 .. NumItems}

\* hash seeds: none, and the largest usize (seed + h1 wraps)
Seeds == {U64(0), U64Max}

\* the draws of random(): every residue of the bucket count, and the two
\* largest values of usize
Draws(n) == {U64(x) : x \in 0 .. (n - 1)} \cup {U64Max, <<LimbBase - 2, LimbBase - 1, LimbBase - 1, LimbBase - 1>>}

NoItem == <<>>
Op(name, item) == [op |-> name, item |-> item]
\* the recorded history: the operations since construction or the last reset
\* while they are at most two, and the single entry "more" afterwards
More == <<Op("more", NoItem)>>
Record(h, o) ==
    CASE h = <<>> -> <<o>>
      [] h # More /\ Tail(h) = <<>> -> Append(h, o)
      [] OTHER -> More

\* a buffer of len zero bytes
Zeros(len) == [i \in 1 .. len |-> 0]

(***************************************************************************)
(* State                                                                   *)
(***************************************************************************)
VARIABLES
    kind,             \* "classic", "counting" or "stable": the filter type in use
    buckets,          \* Filter.buckets
    hash_kernels,     \* Filter.hash_kernels: [k, n, hash_seed]
    p,                \* Filter.p of the stable filter (0 otherwise)
    overflow_checks,  \* the build panics on integer overflow (else it wraps)
    panicked,         \* an operation has panicked
    inserted,         \* items inserted (or merged in) since construction or reset
    carried,          \* items inserted into the filter whose raw data built this one
    removed,          \* a remove was called since construction or reset
    since,            \* per item: insert calls after its latest insert (-1: never), capped
    last,             \* the latest operation
    hist,             \* the recorded history
    call,             \* the arguments of the latest bucket array operation, the
                      \* draw of the latest stable insert, or (balanced use of the
                      \* counting filter) the outstanding inserts of every item
    before            \* the bucket array before the latest bucket array operation
                      \* or stable insert

vars == <<kind, buckets, hash_kernels, p, overflow_checks, panicked,
          inserted, carried, removed, since, last, hist, call, before>>

NoCall == [bucket |-> 0, byte |-> 0, delta |-> 0]

Fresh(o) ==
    /\ panicked = FALSE
    /\ inserted = {}
    /\ carried = {}
    /\ removed = FALSE
    /\ since = [x \in Items |-> -1]
    /\ last = Op(o, NoItem)
    /\ hist = <<>>
    /\ call = NoCall
    /\ before = buckets

\* classic::Filter::new(items_count, fp_rate, DefaultBuildHashKernels::new(seed, ..))
ClassicNew(items_count, fp_rate, seed) ==
    /\ compute_m_num_ok(items_count, fp_rate)
    /\ kind = "classic"
    /\ buckets = Buckets_new(compute_m_num(items_count, fp_rate), 1)
    /\ hash_kernels = with_k(seed, compute_k_num(fp_rate), buckets.count)
    /\ p = 0
    /\ Fresh("new")

\* classic::Filter::with_raw_data(raw_data, k, DefaultBuildHashKernels::new(seed, ..))
ClassicWithRawData(raw_data, k, seed) ==
    /\ Buckets_with_raw_data_ok(Len(raw_data) * 8, 1, raw_data)
    /\ kind = "classic"
    /\ buckets = Buckets_with_raw_data(Len(raw_data) * 8, 1, raw_data)
    /\ hash_kernels = with_k(seed, k, buckets.count)
    /\ p = 0
    /\ Fresh("with_raw_data")

\* counting::Filter::new(items_count, bucket_size, fp_rate, ..)
CountingNew(items_count, bucket_size, fp_rate, seed) ==
    /\ compute_m_num_ok(items_count, fp_rate)
    /\ Buckets_new_ok(compute_m_num(items_count, fp_rate), bucket_size)
    /\ kind = "counting"
    /\ buckets = Buckets_new(compute_m_num(items_count, fp_rate), bucket_size)
    /\ hash_kernels = with_k(seed, compute_k_num(fp_rate), buckets.count)
    /\ p = 0
    /\ Fresh("new")

\* stable::Filter::new(m, d, fp_rate, ..)
StableNew(m, d, fp_rate, seed) ==
    /\ fp_rate_ok(fp_rate)
    /\ Buckets_new_ok(m, d)
    /\ kind = "stable"
    /\ buckets = Buckets_new(m, d)
    /\ hash_kernels = with_k(seed, stable_k(m, fp_rate), m)
    /\ p = compute_p_num(m, stable_k(m, fp_rate), d, fp_rate)
    /\ Fresh("new")

\* the constructor calls the model starts from
ClassicShapes == {<<1, <<1, 2>>>>, <<10, <<3, 100>>>>}
RawShapes == {<<8, 2>>, <<16, 2>>, <<8, 0>>, <<0, 2>>}
CountingShapes == {<<1, 7, <<7, 10>>>>, <<3, 2, <<1, 4>>>>, <<1, 1, <<1, 2>>>>}
StableShapes == {<<0, 2, <<1, 2>>>>, <<3, 1, <<1, 2>>>>, <<4, 1, <<1, 4>>>>,
                 <<3, 2, <<1, 2>>>>, <<5, 2, <<1, 2>>>>}

InitClassic ==
    /\ overflow_checks \in BOOLEAN
    /\ \E seed \in Seeds :
        \/ \E c \in ClassicShapes : ClassicNew(c[1], c[2], seed)
        \/ \E c \in RawShapes : ClassicWithRawData(Zeros(c[1]), c[2], seed)

InitCounting ==
    /\ overflow_checks \in BOOLEAN
    /\ \E seed \in Seeds : \E c \in CountingShapes : CountingNew(c[1], c[2], c[3], seed)

InitStable ==
    /\ overflow_checks \in BOOLEAN
    /\ \E seed \in Seeds : \E c \in StableShapes : StableNew(c[1], c[2], c[3], seed)

Init == InitClassic \/ InitCounting \/ InitStable

(***************************************************************************)
(* Operations                                                              *)
(***************************************************************************)
Panic ==
    /\ panicked' = TRUE
    /\ UNCHANGED <<kind, buckets, hash_kernels, p, overflow_checks,
                   inserted, carried, removed, since, last, hist, call, before>>

\* a panic inside the named bucket array operation
PanicIn(name) ==
    /\ panicked' = TRUE
    /\ last' = Op(name, NoItem)
    /\ UNCHANGED <<kind, buckets, hash_kernels, p, overflow_checks,
                   inserted, carried, removed, since, hist, call, before>>

\* the ghost state after reset(): nothing is inserted any more
Forget ==
    /\ inserted' = {}
    /\ carried' = {}
    /\ removed' = FALSE
    /\ since' = [x \in Items |-> -1]
    /\ last' = Op("reset", NoItem)
    /\ hist' = <<>>

RECURSIVE InsertAll(_, _, _)
\* the classic bucket array after inserting every item of the set
InsertAll(B, hk, items) ==
    IF items = {} THEN B
    ELSE LET x == CHOOSE y \in items : TRUE
         IN  InsertAll(Classic_insert(B, hk, x), hk, items \ {x})

\* classic::Filter::insert
ClassicInsert(x) ==
    /\ kind = "classic" /\ ~panicked
    /\ IF ProbesInStorage(buckets, hash_kernels, x)
       THEN /\ buckets' = Classic_insert(buckets, hash_kernels, x)
            /\ inserted' = inserted \cup {x}
            /\ last' = Op("insert", x)
            /\ hist' = Record(hist, Op("insert", x))
            /\ UNCHANGED <<kind, hash_kernels, p, overflow_checks, panicked,
                           carried, removed, since, call, before>>
       ELSE Panic

\* classic::Filter::reset
ClassicReset ==
    /\ kind = "classic" /\ ~panicked
    /\ buckets' = Buckets_reset(buckets)
    /\ Forget
    /\ UNCHANGED <<kind, hash_kernels, p, overflow_checks, panicked, call, before>>

\* classic::Filter::update with the raw data of a second filter that has the
\* same bucket count, k, seed and hasher and holds the items of the set
ClassicUpdate(items2) ==
    /\ kind = "classic" /\ ~panicked
    /\ \A x \in items2 : ProbesInStorage(buckets, hash_kernels, x)
    /\ LET filter2 == InsertAll(Buckets_reset(buckets), hash_kernels, items2)
       IN  buckets' = Buckets_update(buckets, Buckets_raw_data(filter2))
    /\ inserted' = inserted \cup items2
    /\ last' = Op("update", NoItem)
    /\ hist' = Record(hist, Op("update", NoItem))
    /\ UNCHANGED <<kind, hash_kernels, p, overflow_checks, panicked,
                   carried, removed, since, call, before>>

\* Filter::with_raw_data(filter.buckets().raw_data(), k, the same seed and hasher):
\* the filter is replaced by the one rebuilt from its raw data
ClassicReload ==
    /\ kind = "classic" /\ ~panicked
    /\ LET raw_data == Buckets_raw_data(buckets)
       IN  /\ Buckets_with_raw_data_ok(Len(raw_data) * 8, 1, raw_data)
           /\ buckets' = Buckets_with_raw_data(Len(raw_data) * 8, 1, raw_data)
           /\ hash_kernels' = with_k(hash_kernels.hash_seed, hash_kernels.k, Len(raw_data) * 8)
    /\ inserted' = {}
    /\ carried' = carried \cup inserted
    /\ last' = Op("reload", NoItem)
    /\ hist' = <<>>
    /\ UNCHANGED <<kind, p, overflow_checks, panicked, removed, since, call, before>>

\* counting::Filter::insert
CountingInsert(x) ==
    /\ kind = "counting" /\ ~panicked
    /\ IF /\ ProbesInStorage(buckets, hash_kernels, x)
          /\ ~(overflow_checks /\ Counting_insert(buckets, hash_kernels, x).overflow)
       THEN /\ buckets' = Counting_insert(buckets, hash_kernels, x).b
            /\ inserted' = inserted \cup {x}
            /\ last' = Op("insert", x)
            /\ hist' = Record(hist, Op("insert", x))
            /\ UNCHANGED <<kind, hash_kernels, p, overflow_checks, panicked,
                           carried, removed, since, call, before>>
       ELSE Panic

\* counting::Filter::remove
CountingRemove(x) ==
    /\ kind = "counting" /\ ~panicked
    /\ IF ProbesInStorage(buckets, hash_kernels, x)
       THEN /\ buckets' = Counting_remove(buckets, hash_kernels, x).b
            /\ removed' = TRUE
            /\ last' = Op("remove", x)
            /\ hist' = Record(hist, Op("remove", x))
            /\ UNCHANGED <<kind, hash_kernels, p, overflow_checks, panicked,
                           inserted, carried, since, call, before>>
       ELSE Panic

\* counting::Filter::reset
CountingReset ==
    /\ kind = "counting" /\ ~panicked
    /\ buckets' = Buckets_reset(buckets)
    /\ Forget
    /\ UNCHANGED <<kind, hash_kernels, p, overflow_checks, panicked, call, before>>

\* insert calls after the latest insert of each item, capped at max_value
Aged(x) ==
    [y \in Items |-> IF y = x THEN 0
                     ELSE IF since[y] = -1 THEN -1
                     ELSE IF since[y] < buckets.max THEN since[y] + 1
                     ELSE since[y]]

\* stable::Filter::insert, r being the value random() returns in decrement
StableInsert(x, r) ==
    /\ kind = "stable" /\ ~panicked
    /\ IF /\ p = 0 \/ buckets.count > 0
          /\ ~(overflow_checks /\ decay_overflows(p, r))
          /\ ProbesInStorage(buckets, hash_kernels, x)
       THEN /\ buckets' = Stable_insert(buckets, hash_kernels, p, r, x)
            /\ inserted' = inserted \cup {x}
            /\ since' = Aged(x)
            /\ last' = Op("insert", x)
            /\ hist' = Record(hist, Op("insert", x))
            /\ call' = [draw |-> r]
            /\ before' = buckets
            /\ UNCHANGED <<kind, hash_kernels, p, overflow_checks, panicked,
                           carried, removed>>
       ELSE Panic

\* stable::Filter::reset
StableReset ==
    /\ kind = "stable" /\ ~panicked
    /\ buckets' = Buckets_reset(buckets)
    /\ Forget
    /\ UNCHANGED <<kind, hash_kernels, p, overflow_checks, panicked, call, before>>

NextClassic ==
    \/ \E x \in Items : ClassicInsert(x)
    \/ ClassicReset
    \/ \E items2 \in SUBSET Items : ClassicUpdate(items2)
    \/ ClassicReload

NextCounting ==
    \/ \E x \in Items : CountingInsert(x)
    \/ \E x \in Items : CountingRemove(x)
    \/ CountingReset

NextStable ==
    \/ \E x \in Items : \E r \in Draws(buckets.count) : StableInsert(x, r)
    \/ StableReset

Next == NextClassic \/ NextCounting \/ NextStable

Spec == Init /\ [][Next]_vars
SpecClassic == InitClassic /\ [][NextClassic]_vars
SpecCounting == InitCounting /\ [][NextCounting]_vars
SpecStable == InitStable /\ [][NextStable]_vars

(***************************************************************************)
(* The bucket array on its own: an array of BucketCount buckets of every   *)
(* width, filled by a run of set calls; then at most one more set, then a  *)
(* rebuild from the raw data or a reset.                                  *)
(***************************************************************************)
\* buckets of the array (for the widths 3, 5, 6 and 7 a bucket below 24
\* lies across the first word boundary)
BucketCount == 24

Widths == 1 .. 7

RECURSIVE Filled(_, _, _)
\* the array after set(b, value of the pattern at b) for b = from .. count - 1
Filled(B, fill, from) ==
    IF from >= B.count THEN B
    ELSE LET byte == CASE fill = "zero" -> 0
                       [] fill = "max" -> B.max
                       [] fill = "ramp" -> (from + 1) % (B.max + 1)
         IN  Filled(Buckets_set(B, from, byte), fill, from + 1)
Fills == {"zero", "max", "ramp"}

\* the bytes handed to set: the bytes with the top bit set and, for widths up
\* to 3, every value a bucket can hold and the first one above; for wider
\* buckets the values at both ends of the range, the first one above, and the
\* two alternating bit patterns
Bytes(B) ==
    IF B.bucket_size <= 3 THEN (0 .. (B.max + 1)) \cup {128, 255}
    ELSE {0, 1, 2, 85 % (B.max + 1), 170 % (B.max + 1),
          B.max - 1, B.max, B.max + 1, 128, 255}

InitBuckets ==
    /\ kind = "buckets"
    /\ \E count \in {1, BucketCount} : \E bucket_size \in Widths : \E fill \in Fills :
          /\ Buckets_new_ok(count, bucket_size)
          /\ buckets = Filled(Buckets_new(count, bucket_size), fill, 0)
    /\ hash_kernels = with_k(U64(0), 0, 0)
    /\ p = 0
    /\ overflow_checks \in BOOLEAN
    /\ Fresh("new")

BucketsFrame ==
    UNCHANGED <<kind, hash_kernels, p, overflow_checks, panicked,
                inserted, carried, removed, since, hist>>

\* Buckets::set(bucket, byte)
BSet ==
    /\ kind = "buckets" /\ ~panicked /\ last.op = "new"
    /\ \E bucket \in 0 .. (buckets.count - 1) : \E byte \in Bytes(buckets) :
       IF InStorage(buckets, bucket)
       THEN /\ buckets' = Buckets_set(buckets, bucket, byte)
            /\ call' = [bucket |-> bucket, byte |-> byte, delta |-> 0]
            /\ before' = buckets
            /\ last' = Op("set", NoItem)
            /\ BucketsFrame
       ELSE PanicIn("set")

\* the deltas handed to increment: the ends of the i8 range, the steps by one,
\* and the ones that reach max_value and 127 from a bucket value
Deltas(B) == {-128, -B.max - 1, -B.max, -1, 0, 1, B.max, 127 - B.max, 128 - B.max, 127}

\* Buckets::increment(bucket, delta): the i8 sum panics in a build with
\* overflow checks and wraps in one without
BIncrement ==
    /\ kind = "buckets" /\ ~panicked /\ last.op = "new"
    /\ \E bucket \in 0 .. (buckets.count - 1) : \E delta \in Deltas(buckets) :
       /\ call' = [bucket |-> bucket, byte |-> 0, delta |-> delta]
       /\ before' = buckets
       /\ last' = Op("increment", NoItem)
       /\ IF InStorage(buckets, bucket)
             /\ ~(overflow_checks /\ increment_overflows(buckets, bucket, delta))
          THEN /\ buckets' = Buckets_increment(buckets, bucket, delta)
               /\ BucketsFrame
          ELSE /\ panicked' = TRUE
               /\ UNCHANGED <<kind, buckets, hash_kernels, p, overflow_checks,
                              inserted, carried, removed, since, hist>>

\* Buckets::with_raw_data(count, bucket_size, buckets.raw_data()): the array
\* is replaced by the one rebuilt from its raw data
BRoundTrip ==
    /\ kind = "buckets" /\ ~panicked /\ last.op \in {"new", "set"}
    /\ IF Buckets_with_raw_data_ok(buckets.count, buckets.bucket_size, Buckets_raw_data(buckets))
       THEN /\ buckets' = Buckets_with_raw_data(buckets.count, buckets.bucket_size,
                                                 Buckets_raw_data(buckets))
            /\ call' = NoCall
            /\ before' = buckets
            /\ last' = Op("with_raw_data", NoItem)
            /\ BucketsFrame
       ELSE Panic

\* the arguments handed to new: bucket counts (none, one, the array's) and
\* widths from 0 to past the first rejected one
NewCounts == {0, 1, BucketCount}
NewWidths == {0, 1, 3, 7, 8, 9}

\* Buckets::new(count, bucket_size) for any width: the assert! fails, or the
\* array is built
BNew ==
    /\ kind = "buckets" /\ ~panicked /\ last.op = "new"
    /\ \A w \in DOMAIN buckets.data : buckets.data[w] = WZero
    /\ \E count \in NewCounts : \E bucket_size \in NewWidths :
       /\ call' = [count |-> count, bucket_size |-> bucket_size, len |-> 0]
       /\ before' = buckets
       /\ last' = Op("created", NoItem)
       /\ IF Buckets_new_ok(count, bucket_size)
          THEN /\ buckets' = Buckets_new(count, bucket_size)
               /\ BucketsFrame
          ELSE /\ panicked' = TRUE
               /\ UNCHANGED <<kind, buckets, hash_kernels, p, overflow_checks,
                              inserted, carried, removed, since, hist>>

\* the arguments handed to with_raw_data: bucket counts (none, one, one whose
\* last bucket ends a word, the array's), widths up to the first rejected
\* one, and byte lengths at and around the one required
RawCounts == {0, 1, 64, BucketCount}
RawWidths == {0, 1, 3, 7, 8}
RawLens(count, bucket_size) ==
    LET expected == compute_word_num(count, bucket_size) * BYTES_PER_WORD
    IN  {n \in {0, expected - BYTES_PER_WORD, expected - 1, expected,
                 expected + 1, expected + BYTES_PER_WORD} : n >= 0}
\* a buffer of len bytes with a pattern in them
RawBytes(len) == [i \in 1 .. len |-> (i * 37) % 256]

\* Buckets::with_raw_data(count, bucket_size, raw_data) on a buffer of any
\* length: an assert! fails, or the array is built from the buffer
BWithRawData ==
    /\ kind = "buckets" /\ ~panicked /\ last.op = "new"
    /\ \A w \in DOMAIN buckets.data : buckets.data[w] = WZero
    /\ \E count \in RawCounts : \E bucket_size \in RawWidths :
       \E len \in RawLens(count, bucket_size) :
       /\ call' = [count |-> count, bucket_size |-> bucket_size, len |-> len]
       /\ before' = buckets
       /\ last' = Op("from_raw", NoItem)
       /\ IF Buckets_with_raw_data_ok(count, bucket_size, RawBytes(len))
          THEN /\ buckets' = Buckets_with_raw_data(count, bucket_size, RawBytes(len))
               /\ BucketsFrame
          ELSE /\ panicked' = TRUE
               /\ UNCHANGED <<kind, buckets, hash_kernels, p, overflow_checks,
                              inserted, carried, removed, since, hist>>

\* Buckets::reset
BReset ==
    /\ kind = "buckets" /\ ~panicked /\ last.op \in {"new", "set", "increment"}
    /\ buckets' = Buckets_reset(buckets)
    /\ call' = NoCall
    /\ before' = buckets
    /\ last' = Op("reset", NoItem)
    /\ BucketsFrame

NextBuckets ==
    \/ BSet
    \/ BIncrement
    \/ BWithRawData
    \/ BNew
    \/ BRoundTrip
    \/ BReset

SpecBuckets == InitBuckets /\ [][NextBuckets]_vars

\* the filters and the bucket array together
InitAll == Init \/ InitBuckets
NextAll == Next \/ NextBuckets
SpecAll == InitAll /\ [][NextAll]_vars

(***************************************************************************)
(* Construction from (items_count, fp_rate), valid or not: the heap        *)
(* filters and bucket array (src/src/classic.rs, counting.rs, buckets.rs)  *)
(* and the const-generic ones (src/src/const_generics), whose              *)
(* preconditions are debug assertions that a build may leave out.          *)
(***************************************************************************)
\* const_generics/buckets.rs: the storage is W words whatever the count
ConstBuckets_new_ok(bucket_size, debug_assertions) == debug_assertions => bucket_size < 8

ConstBuckets_new(W, bucket_count, bucket_size) ==
    [data |-> [w \in 0 .. (W - 1) |-> WZero],
     count |-> bucket_count,
     bucket_size |-> bucket_size,
     max |-> MaxOf(bucket_size)]

optimal_bucket_count_ok(items_count, fp_rate, debug_assertions) ==
    debug_assertions => (items_count > 0 /\ fp_rate_ok(fp_rate))

\* the f64 expression without its assertions: the logarithm of a negative
\* rate is NaN, which the cast to usize turns into 0
optimal_bucket_count(items_count, fp_rate) ==
    IF fp_rate[1] < 0 THEN 0 ELSE compute_m_num(items_count, fp_rate)

approximate_bucket_count(items_count) == items_count * 16

hash_compute_k_num_ok(fp_rate, debug_assertions) == debug_assertions => fp_rate_ok(fp_rate)

\* fp_rate.log2().abs().ceil() as usize without its assertion
hash_compute_k_num(fp_rate) ==
    IF fp_rate[1] < 0 THEN 0
    ELSE IF fp_rate[1] > fp_rate[2] THEN KFrom(<<fp_rate[2], fp_rate[1]>>, 0)
    ELSE KFrom(fp_rate, 0)

\* the arguments handed to the constructors.  A rate of 0 makes the
\* unasserted expressions infinite (k = usize::MAX): it is drawn only where
\* an assertion stops it.
ConstructCounts == {0, 1, 4, 10}
ConstructRates == {<<0, 1>>, <<1, 2>>, <<1, 10000>>, <<1, 1>>, <<3, 2>>, <<-1, 2>>}
ConstructVariants == {"classic", "counting", "buckets", "const_classic", "const_buckets"}

InitConstruct ==
    /\ kind = "none"
    /\ buckets = Buckets_new(0, 1)
    /\ hash_kernels = with_k(U64(0), 0, 0)
    /\ p = 0
    /\ overflow_checks \in BOOLEAN
    /\ Fresh("none")

ConstructArgs(variant, items_count, fp_rate, debug_assertions) ==
    [variant |-> variant, items_count |-> items_count, fp_rate |-> fp_rate,
     debug_assertions |-> debug_assertions]

\* the constructor returned: the caller holds the filter or bucket array
Constructed(B, hk) ==
    /\ kind' = call'.variant
    /\ buckets' = B
    /\ hash_kernels' = hk
    /\ last' = Op("construct", NoItem)
    /\ UNCHANGED <<p, overflow_checks, panicked, inserted, carried, removed,
                   since, hist, before>>

\* an assertion failed: the constructor returns nothing
ConstructFailed ==
    /\ panicked' = TRUE
    /\ last' = Op("construct", NoItem)
    /\ UNCHANGED <<kind, buckets, hash_kernels, p, overflow_checks,
                   inserted, carried, removed, since, hist, before>>

\* classic::Filter::new, counting::Filter::new (width 2) and
\* Buckets::with_fp_rate (width 2)
ConstructHeap(variant, items_count, fp_rate, seed, debug_assertions) ==
    /\ kind = "none" /\ ~panicked
    /\ variant \in {"classic", "counting", "buckets"}
    /\ call' = ConstructArgs(variant, items_count, fp_rate, debug_assertions)
    /\ LET bucket_size == IF variant = "classic" THEN 1 ELSE 2
       IN  IF /\ compute_m_num_ok(items_count, fp_rate)
              /\ Buckets_new_ok(compute_m_num(items_count, fp_rate), bucket_size)
              /\ variant # "buckets" => hash_compute_k_num_ok(fp_rate, debug_assertions)
           THEN LET B == Buckets_new(compute_m_num(items_count, fp_rate), bucket_size)
                IN  Constructed(B, IF variant = "buckets" THEN hash_kernels
                                   ELSE with_k(seed, hash_compute_k_num(fp_rate), B.count))
           ELSE ConstructFailed

\* const_generics: classic Filter::new as the classicfilter! macro sizes it,
\* and ConstBuckets::with_fp_rate (width 2) with the same storage
ConstructConst(variant, items_count, fp_rate, seed, debug_assertions) ==
    /\ kind = "none" /\ ~panicked
    /\ variant \in {"const_classic", "const_buckets"}
    /\ debug_assertions \/ fp_rate # <<0, 1>>
    /\ call' = ConstructArgs(variant, items_count, fp_rate, debug_assertions)
    /\ LET bucket_size == IF variant = "const_classic" THEN 1 ELSE 2
           W == compute_word_num(approximate_bucket_count(items_count), bucket_size)
       IN  IF /\ optimal_bucket_count_ok(items_count, fp_rate, debug_assertions)
              /\ ConstBuckets_new_ok(bucket_size, debug_assertions)
              /\ variant # "const_buckets" => hash_compute_k_num_ok(fp_rate, debug_assertions)
           THEN LET B == ConstBuckets_new(W, optimal_bucket_count(items_count, fp_rate), bucket_size)
                IN  Constructed(B, IF variant = "const_buckets" THEN hash_kernels
                                   ELSE with_k(seed, hash_compute_k_num(fp_rate), B.count))
           ELSE ConstructFailed

\* the arguments handed to the stable filters' new: bucket counts around the
\* k computed from the rate (1 for 1/2, 2 for 1/4, 0 for the invalid rate 1)
StableCounts == {0, 1, 2, 3, 5}
StableWidths == {1, 2}
StableRates == {<<1, 2>>, <<1, 4>>, <<1, 1>>}
StableVariants == {"stable", "const_stable"}

\* the k of Filter::new of the stable filters from the k computed
clamp_k(k, bucket_count) ==
    IF k > bucket_count THEN bucket_count ELSE IF k = 0 THEN 1 ELSE k

\* stable::Filter::new (src/src/stable.rs) and the const-generic Filter::new
\* as the stablefilter! macro sizes it.  p is held as a 64-bit number in
\* limbs, since it can be usize::MAX.
ConstructStable(variant, bucket_count, bucket_size, fp_rate, seed, debug_assertions) ==
    /\ kind = "none" /\ ~panicked
    /\ call' = [variant |-> variant, bucket_count |-> bucket_count,
                bucket_size |-> bucket_size, fp_rate |-> fp_rate,
                debug_assertions |-> debug_assertions]
    /\ last' = Op("new_stable", NoItem)
    /\ IF variant = "stable"
       THEN IF fp_rate_ok(fp_rate) /\ Buckets_new_ok(bucket_count, bucket_size)
            THEN /\ kind' = variant
                 /\ buckets' = Buckets_new(bucket_count, bucket_size)
                 /\ hash_kernels' = with_k(seed, stable_k(bucket_count, fp_rate), bucket_count)
                 /\ p' = compute_p_num_usize(bucket_count, stable_k(bucket_count, fp_rate),
                                             bucket_size, fp_rate)
                 /\ UNCHANGED <<overflow_checks, panicked, inserted, carried, removed,
                                since, hist, before>>
            ELSE /\ panicked' = TRUE
                 /\ UNCHANGED <<kind, buckets, hash_kernels, p, overflow_checks,
                                inserted, carried, removed, since, hist, before>>
       ELSE IF /\ hash_compute_k_num_ok(fp_rate, debug_assertions)
               /\ ConstBuckets_new_ok(bucket_size, debug_assertions)
            THEN LET k == clamp_k(hash_compute_k_num(fp_rate), bucket_count)
                 IN  /\ kind' = variant
                     /\ buckets' = ConstBuckets_new(compute_word_num(bucket_count, bucket_size),
                                                    bucket_count, bucket_size)
                     /\ hash_kernels' = with_k(seed, k, bucket_count)
                     /\ p' = compute_p_num_usize(bucket_count, k, bucket_size, fp_rate)
                     /\ UNCHANGED <<overflow_checks, panicked, inserted, carried, removed,
                                    since, hist, before>>
            ELSE /\ panicked' = TRUE
                 /\ UNCHANGED <<kind, buckets, hash_kernels, p, overflow_checks,
                                inserted, carried, removed, since, hist, before>>

NextConstruct ==
    \/ \E variant \in ConstructVariants : \E items_count \in ConstructCounts :
       \E fp_rate \in ConstructRates : \E seed \in Seeds : \E debug_assertions \in BOOLEAN :
           \/ ConstructHeap(variant, items_count, fp_rate, seed, debug_assertions)
           \/ ConstructConst(variant, items_count, fp_rate, seed, debug_assertions)
    \/ \E variant \in StableVariants : \E bucket_count \in StableCounts :
       \E bucket_size \in StableWidths : \E fp_rate \in StableRates :
       \E seed \in Seeds : \E debug_assertions \in BOOLEAN :
           ConstructStable(variant, bucket_count, bucket_size, fp_rate, seed, debug_assertions)

SpecConstruct == InitConstruct /\ [][NextConstruct]_vars

(***************************************************************************)
(* The hash kernel on its own: a kernel of any seed, k and n >= 1, asked   *)
(* for the probes of a digest, any number of times.                        *)
(***************************************************************************)
\* seeds: none, one, and the two that wrap with h1 = 70 or with any h1 > 0
HashSeeds == Seeds \cup {U64(1), <<LimbBase - 70, LimbBase - 1, LimbBase - 1, LimbBase - 1>>}
\* bucket counts, k, and digests with the largest halves
HashCounts == {1, 2, 3, 7, 64, 100}
HashProbes == 0 .. 3
HashDigests == Items \cup {U64Max, <<0, 0, LimbBase - 1, LimbBase - 1>>,
                           <<LimbBase - 1, LimbBase - 1, 0, 0>>}

NoProbes == [item |-> NoItem, probes |-> <<>>]

InitHash ==
    /\ kind = "hash"
    /\ buckets = Buckets_new(0, 1)
    /\ \E seed \in HashSeeds : \E k \in HashProbes : \E n \in HashCounts :
          hash_kernels = with_k(seed, k, n)
    /\ p = 0
    /\ overflow_checks \in BOOLEAN
    /\ panicked = FALSE
    /\ inserted = {}
    /\ carried = {}
    /\ removed = FALSE
    /\ since = [x \in Items |-> -1]
    /\ last = Op("with_k", NoItem)
    /\ hist = <<>>
    /\ call = NoProbes
    /\ before = NoProbes

\* hash_iter(item), collected; the call before it is kept
HashIter(item) ==
    /\ kind = "hash" /\ ~panicked
    /\ call' = [item |-> item, probes |-> hash_iter(hash_kernels, item)]
    /\ before' = call
    /\ last' = Op("hash_iter", item)
    /\ UNCHANGED <<kind, buckets, hash_kernels, p, overflow_checks, panicked,
                   inserted, carried, removed, since, hist>>

NextHash == \E item \in HashDigests : HashIter(item)

SpecHash == InitHash /\ [][NextHash]_vars

(***************************************************************************)
(* The const-generic bucket array (src/src/const_generics/buckets.rs) on   *)
(* its own.  Its words are u64; set, get, set_word and get_word have the   *)
(* text of the heap array's.                                               *)
(***************************************************************************)
ConstBuckets_set(B, bucket, byte) == Buckets_set(B, bucket, byte)
ConstBuckets_get(B, bucket) == Buckets_get(B, bucket)

\* increment whose i8 sum wraps
ConstBuckets_increment_wrapping(B, bucket, delta) ==
    LET v == I8Wrap(ConstBuckets_get(B, bucket) + delta)
        value == IF v < 0 THEN 0 ELSE IF v > B.max THEN B.max ELSE v
    IN  ConstBuckets_set(B, bucket, value)

\* ConstBuckets::increment: (get(bucket) as i8).saturating_add(delta)
ConstBuckets_increment(B, bucket, delta) ==
    LET sum == ConstBuckets_get(B, bucket) + delta
        v == IF sum > 127 THEN 127 ELSE IF sum < -128 THEN -128 ELSE sum
        value == IF v < 0 THEN 0 ELSE IF v > B.max THEN B.max ELSE v
    IN  ConstBuckets_set(B, bucket, value)

\* the arrays built: the three 7-bit buckets of the crate's overflow test, and
\* ten 7-bit buckets, the last of which lies across two words
ConstShapes == {<<3, 7>>, <<10, 7>>}
\* the buckets operated on: the first and the last
ConstTouched(B) == {0, B.count - 1}
\* every byte a 7-bit bucket holds, and every i8
ConstBytes == 0 .. 127
ConstDeltas == -128 .. 127

InitConstBuckets ==
    /\ kind = "const_buckets"
    /\ \E c \in ConstShapes :
          buckets = ConstBuckets_new(compute_word_num(c[1], c[2]), c[1], c[2])
    /\ hash_kernels = with_k(U64(0), 0, 0)
    /\ p = 0
    /\ overflow_checks \in BOOLEAN
    /\ Fresh("new")

\* ConstBuckets::set(bucket, byte) on the new array
CSet ==
    /\ kind = "const_buckets" /\ ~panicked /\ last.op = "new"
    /\ \E bucket \in ConstTouched(buckets) : \E byte \in ConstBytes :
          /\ buckets' = ConstBuckets_set(buckets, bucket, byte)
          /\ call' = [bucket |-> bucket, byte |-> byte, delta |-> 0]
    /\ before' = buckets
    /\ last' = Op("set", NoItem)
    /\ BucketsFrame

\* ConstBuckets::increment(bucket, delta) of the bucket that was set
CIncrement ==
    /\ kind = "const_buckets" /\ ~panicked /\ last.op = "set"
    /\ \E delta \in ConstDeltas :
          /\ buckets' = ConstBuckets_increment(buckets, call.bucket, delta)
          /\ call' = [bucket |-> call.bucket, byte |-> 0, delta |-> delta]
    /\ before' = buckets
    /\ last' = Op("increment", NoItem)
    /\ BucketsFrame

NextConstBuckets == CSet \/ CIncrement

SpecConstBuckets == InitConstBuckets /\ [][NextConstBuckets]_vars

(***************************************************************************)
(* ConstBuckets::update on its own: an array of one-bit buckets with some  *)
(* buckets set is merged with the raw data of another such array, as in    *)
(* the crate's update test (100 buckets merged with the data of 50).       *)
(***************************************************************************)
ConstBuckets_raw_data(B) == Buckets_raw_data(B)

\* update that stores the chunk in place of the word
ConstBuckets_update_overwrite(B, raw_data) ==
    [B EXCEPT !.data = [w \in DOMAIN B.data |->
        IF w * BYTES_PER_WORD < Len(raw_data)
        THEN OrBytes(WZero, raw_data, w * BYTES_PER_WORD, 0)
        ELSE B.data[w]]]

\* ConstBuckets::update: data.iter_mut().zip(raw_data.chunks(BYTES_PER_WORD)):
\* word w meets chunk w while the buffer has a byte at 8w, and is replaced by
\* the fold of acc | byte << (offset * 8) over the chunk, starting from itself
ConstBuckets_update(B, raw_data) ==
    [B EXCEPT !.data = [w \in DOMAIN B.data |->
        IF w * BYTES_PER_WORD < Len(raw_data)
        THEN OrBytes(B.data[w], raw_data, w * BYTES_PER_WORD, 0)
        ELSE B.data[w]]]

RECURSIVE SetAll(_, _)
\* set(b, 1) for every bucket b of S
SetAll(B, S) ==
    IF S = {} THEN B
    ELSE LET b == CHOOSE x \in S : TRUE
         IN  SetAll(ConstBuckets_set(B, b, 1), S \ {b})

\* the bucket counts of the two arrays, and the buckets that may be set in an
\* array of each count (the update test sets 0, 20, 63 and 7, 20, 21, 49)
UpdateCounts == {50, 100}
UpdateReceiverBits(count) == IF count = 100 THEN {0, 20, 63, 64, 99} ELSE {0, 20, 49}
UpdateBufferBits(count) == IF count = 100 THEN {7, 20, 64, 99} ELSE {7, 20, 21, 49}

OneBit(count, S) == SetAll(ConstBuckets_new(compute_word_num(count, 1), count, 1), S)

InitConstUpdate ==
    /\ kind = "const_buckets"
    /\ \E count \in UpdateCounts : \E S \in SUBSET UpdateReceiverBits(count) :
          buckets = OneBit(count, S)
    /\ hash_kernels = with_k(U64(0), 0, 0)
    /\ p = 0
    /\ overflow_checks \in BOOLEAN
    /\ Fresh("filled")

\* b1.update(&b2.raw_data())
CUpdate ==
    /\ kind = "const_buckets" /\ ~panicked /\ last.op = "filled"
    /\ \E count \in UpdateCounts : \E S \in SUBSET UpdateBufferBits(count) :
          LET b2 == OneBit(count, S)
          IN  /\ buckets' = ConstBuckets_update(buckets, ConstBuckets_raw_data(b2))
              /\ call' = [other |-> b2, raw_data |-> ConstBuckets_raw_data(b2)]
    /\ before' = buckets
    /\ last' = Op("update", NoItem)
    /\ BucketsFrame

NextConstUpdate == CUpdate

SpecConstUpdate == InitConstUpdate /\ [][NextConstUpdate]_vars

(***************************************************************************)
(* The counting filter under balanced use: remove(y) is called only while  *)
(* an insert(y) is outstanding, and insert(x) only while it leaves every   *)
(* bucket below max_value.  call.outstanding counts, for every item, its   *)
(* inserts not yet matched by a remove.                                    *)
(***************************************************************************)
\* items_count, bucket_size, fp_rate: nine 3-bit buckets with k = 2, and two
\* 3-bit buckets with k = 1
BalancedShapes == {<<3, 3, <<1, 4>>>>, <<1, 3, <<1, 2>>>>}

InitBalanced ==
    /\ overflow_checks \in BOOLEAN
    /\ \E seed \in Seeds : \E c \in BalancedShapes :
          /\ compute_m_num_ok(c[1], c[3])
          /\ Buckets_new_ok(compute_m_num(c[1], c[3]), c[2])
          /\ kind = "counting"
          /\ buckets = Buckets_new(compute_m_num(c[1], c[3]), c[2])
          /\ hash_kernels = with_k(seed, compute_k_num(c[3]), buckets.count)
    /\ p = 0
    /\ panicked = FALSE
    /\ inserted = {}
    /\ carried = {}
    /\ removed = FALSE
    /\ since = [x \in Items |-> -1]
    /\ last = Op("new", NoItem)
    /\ hist = <<>>
    /\ call = [outstanding |-> [x \in Items |-> 0]]
    /\ before = buckets

BalancedFrame == UNCHANGED <<kind, hash_kernels, p, overflow_checks, carried, since, hist>>

\* counting::Filter::insert, called while it leaves every bucket below max_value
BalancedInsert(x) ==
    /\ kind = "counting" /\ ~panicked
    /\ ProbesInStorage(buckets, hash_kernels, x)
    /\ \A b \in 0 .. (buckets.count - 1) :
          Buckets_get(Counting_insert(buckets, hash_kernels, x).b, b) < buckets.max
    /\ IF ~(overflow_checks /\ Counting_insert(buckets, hash_kernels, x).overflow)
       THEN /\ buckets' = Counting_insert(buckets, hash_kernels, x).b
            /\ inserted' = inserted \cup {x}
            /\ call' = [outstanding |-> [call.outstanding EXCEPT ![x] = @ + 1]]
            /\ before' = buckets
            /\ last' = Op("insert", x)
            /\ UNCHANGED <<panicked, removed>>
            /\ BalancedFrame
       ELSE Panic

\* counting::Filter::remove of an item with an outstanding insert
BalancedRemove(y) ==
    /\ kind = "counting" /\ ~panicked
    /\ ProbesInStorage(buckets, hash_kernels, y)
    /\ call.outstanding[y] > 0
    /\ buckets' = Counting_remove(buckets, hash_kernels, y).b
    /\ removed' = TRUE
    /\ call' = [outstanding |-> [call.outstanding EXCEPT ![y] = @ - 1]]
    /\ before' = buckets
    /\ last' = Op("remove", y)
    /\ UNCHANGED <<panicked, inserted>>
    /\ BalancedFrame

NextBalanced ==
    \/ \E x \in Items : BalancedInsert(x)
    \/ \E y \in Items : BalancedRemove(y)

SpecBalanced == InitBalanced /\ [][NextBalanced]_vars

(***************************************************************************)
(* Properties                                                              *)
(***************************************************************************)
AllZero(B) == \A b \in 0 .. (B.count - 1) : Buckets_get(B, b) = 0

\* the bucket's bit field lies across two words
Straddles(B, b) ==
    (b * B.bucket_size) \div BITS_PER_WORD
        # (b * B.bucket_size + B.bucket_size - 1) \div BITS_PER_WORD

Min(a, b) == IF a < b THEN a ELSE b
Max(a, b) == IF a > b THEN a ELSE b

\* C1: in a classic filter every item inserted since construction or the
\* last reset is reported by contains, whatever was inserted before or after
C1_ClassicNoFalseNegatives ==
    (kind = "classic" /\ ~panicked) =>
        \A x \in inserted : Classic_contains(buckets, hash_kernels, x)

\* C1 witness: the first item was inserted, the second one after it, into a
\* filter of several words probed several times
C1_Witness ==
    /\ kind = "classic" /\ ~panicked
    /\ hist = <<Op("insert", Digest(1)), Op("insert", Digest(2))>>
    /\ hash_kernels.k > 1
    /\ Cardinality(DOMAIN buckets.data) > 1

\* C2 (as claimed): in a counting filter with no remove and no reset, no
\* insert fails and every inserted item is reported by contains, also when
\* its buckets have reached max_value
C2_CountingNoFalseNegatives ==
    (kind = "counting" /\ ~removed) =>
        /\ ~panicked
        /\ \A x \in inserted : Counting_contains(buckets, hash_kernels, x)

\* C3: right after a stable insert(x) every probe bucket of x holds
\* max_value and contains(x) is true, for every draw and prior state
C3_StableInsertSetsMax ==
    (kind = "stable" /\ ~panicked /\ last.op = "insert") =>
        /\ LET probes == hash_iter(hash_kernels, last.item)
           IN  \A i \in 1 .. hash_kernels.k : Buckets_get(buckets, probes[i]) = buckets.max
        /\ Stable_contains(buckets, hash_kernels, last.item)

\* C3 witness: an insert, after earlier operations, whose decay step
\* decrements every bucket (p >= bucket count), the probes included
C3_Witness ==
    /\ kind = "stable" /\ ~panicked /\ last.op = "insert"
    /\ hist = More
    /\ buckets.count > 0 /\ p >= buckets.count
    /\ buckets.max > 1

\* C4 (as claimed): in a stable filter with p <= bucket_count, an item is
\* reported by contains while at most max_value - 1 insert calls followed
\* its own insert, for every sequence of draws
C4_StableSurvival ==
    (kind = "stable" /\ ~panicked /\ p <= buckets.count) =>
        \A x \in Items :
            (since[x] >= 0 /\ since[x] <= buckets.max - 1) =>
                Stable_contains(buckets, hash_kernels, x)

\* C5 (as claimed): a freshly constructed filter has every bucket at 0 and
\* contains(x) returns false for every item
C5_FreshFilterNegative ==
    (last.op \in {"new", "with_raw_data"}) =>
        /\ AllZero(buckets)
        /\ hash_iter_ok(hash_kernels)
        /\ \A x \in Items :
              ~Contains(kind, buckets, hash_kernels, x)

\* C5 (amended): a freshly constructed filter has every bucket at 0, and
\* contains(x) is false for every item when the filter has at least one
\* bucket and at least one probe
C5_FreshFilterNegativeProbed ==
    (last.op \in {"new", "with_raw_data"}) =>
        /\ AllZero(buckets)
        /\ (hash_kernels.k >= 1 /\ buckets.count >= 1) =>
              \A x \in Items :
                  ~Contains(kind, buckets, hash_kernels, x)

\* C5 witness: a fresh counting filter with buckets and probes
C5_Witness ==
    /\ kind = "counting" /\ last.op = "new"
    /\ hash_kernels.k >= 1 /\ buckets.count >= 1

\* C6: on an empty counting filter, insert(i) then remove(i) leaves every
\* bucket at 0 and contains(i) false
C6_InsertRemoveInverse ==
    (/\ kind = "counting" /\ ~panicked
     /\ Len(hist) = 2
     /\ hist[1].op = "insert" /\ hist[2].op = "remove"
     /\ hist[1].item = hist[2].item) =>
        /\ AllZero(buckets)
        /\ ~Counting_contains(buckets, hash_kernels, hist[1].item)

\* C6 witness: insert then remove of the item whose two probes coincide
C6_Witness ==
    /\ kind = "counting" /\ ~panicked
    /\ hist = <<Op("insert", Digest(1)), Op("remove", Digest(1))>>
    /\ hash_kernels.k = 2
    /\ LET probes == hash_iter(hash_kernels, Digest(1)) IN probes[1] = probes[2]

\* C7: after update with the raw data of a second filter of the same shape
\* and kernel, the bucket array is that of a filter into which the items of
\* both were inserted, and contains is true for each of them
C7_UnionIsInsertAll ==
    (kind = "classic" /\ ~panicked /\ last.op = "update" /\ carried = {}) =>
        /\ buckets = InsertAll(Buckets_reset(buckets), hash_kernels, inserted)
        /\ \A x \in inserted : Classic_contains(buckets, hash_kernels, x)

\* C7 witness: the first item was inserted, then an update merged in a
\* filter holding the second item, in a filter of several words
C7_Witness ==
    /\ kind = "classic" /\ ~panicked
    /\ hist = <<Op("insert", Digest(1)), Op("update", NoItem)>>
    /\ inserted = {Digest(1), Digest(2)}
    /\ hash_kernels.k > 1
    /\ Cardinality(DOMAIN buckets.data) > 1

\* C8 (as claimed): the classic filter rebuilt by with_raw_data from the raw
\* data of a filter, with the same k, seed and hasher, reports every item
\* that was inserted into that filter
C8_ClassicRawDataRoundTrip ==
    (kind = "classic" /\ ~panicked /\ last.op = "reload") =>
        \A x \in carried : Classic_contains(buckets, hash_kernels, x)

\* C9: with_raw_data(count, width, raw_data()) is accepted and rebuilds an
\* array whose get(b) is the original get(b) for every bucket b
C9_BucketsRawDataRoundTrip ==
    (kind = "buckets" /\ ~panicked) =>
        /\ Buckets_with_raw_data_ok(buckets.count, buckets.bucket_size,
                                    Buckets_raw_data(buckets))
        /\ (last.op = "with_raw_data") =>
              \A b \in 0 .. (buckets.count - 1) :
                  Buckets_get(buckets, b) = Buckets_get(before, b)

\* C9 witness: an array was rebuilt in which a bucket lying across two
\* words holds a value with bits in both
C9_Witness ==
    /\ kind = "buckets" /\ last.op = "with_raw_data"
    /\ \E b \in 0 .. (buckets.count - 1) :
          /\ Straddles(before, b)
          /\ Buckets_get(before, b) = before.max
          /\ Buckets_get(buckets, b) = before.max

\* C10: after set(b, v), get(b) is min(v, 2^width - 1), and set does not fail
C10_SetThenGet ==
    (kind = "buckets" /\ last.op = "set") =>
        /\ ~panicked
        /\ Buckets_get(buckets, call.bucket)
              = Min(call.byte, Pow2(buckets.bucket_size) - 1)

\* C10 witness: a byte above max_value was set in a bucket lying across two
\* words that held another value
C10_Witness ==
    /\ kind = "buckets" /\ last.op = "set"
    /\ Straddles(buckets, call.bucket)
    /\ call.byte > buckets.max
    /\ Buckets_get(before, call.bucket) # buckets.max

\* C11 (as claimed): increment(b, delta) of the heap bucket array does not
\* fail and leaves get(b) = min(max_value, max(0, v + delta)), v the value
\* before and the sum exact, for every width, value and delta
C11_HeapSaturatingIncrement ==
    (kind = "buckets" /\ last.op = "increment") =>
        /\ ~panicked
        /\ Buckets_get(buckets, call.bucket)
              = Min(buckets.max, Max(0, Buckets_get(before, call.bucket) + call.delta))

\* C12: in every state reached by set, increment, reset, update and the
\* filters' insert and remove, get(b) is in [0, max_value] for every bucket
\* b in [0, bucket_count) (whose words the array holds, so that get returns)
C12_CounterRange ==
    \A b \in 0 .. (buckets.count - 1) :
        InStorage(buckets, b) =>
            /\ Buckets_get(buckets, b) >= 0
            /\ Buckets_get(buckets, b) <= Pow2(buckets.bucket_size) - 1

\* C12 witness: an increment whose exact sum is above max_value has returned
\* and left a neighbour of the bucket at a non-zero value
C12_Witness ==
    /\ kind = "buckets" /\ last.op = "increment" /\ ~panicked
    /\ buckets.bucket_size > 1
    /\ Buckets_get(before, call.bucket) + call.delta > buckets.max
    /\ call.bucket > 0 /\ Buckets_get(buckets, call.bucket - 1) > 0

\* the bucket indices a filter operation on the item hands to the array lie
\* in [0, bucket_count) and in the backing storage
ProbesInRange(B, hk, item) ==
    /\ hash_iter_ok(hk)
    /\ LET probes == hash_iter(hk, item)
       IN  \A i \in 1 .. hk.k :
              /\ probes[i] >= 0 /\ probes[i] < B.count
              /\ InStorage(B, probes[i])

\* the bucket indices the decay step of a stable insert hands to the array
\* lie in [0, bucket_count) and in the backing storage
DecayInRange(B, pn) ==
    (pn > 0) =>
        /\ B.count > 0
        /\ \A r \in Draws(B.count) :
              LET decayed == decay_buckets(B, pn, r)
              IN  \A j \in 1 .. pn :
                     /\ decayed[j] >= 0 /\ decayed[j] < B.count
                     /\ InStorage(B, decayed[j])

\* C13 (as claimed): in every filter built by a public constructor whose
\* preconditions held, every bucket index insert, contains or remove hands
\* to the bucket array is in [0, bucket_count) and its words are in the
\* backing storage, so that none of them fails on an index
C13_NoBoundsFailure ==
    (kind \in {"classic", "counting", "stable"}) =>
        /\ \A x \in Items : ProbesInRange(buckets, hash_kernels, x)
        /\ (kind = "stable") => DecayInRange(buckets, p)

\* C14: with_raw_data(count, width, bytes) fails whenever the byte length
\* differs from ceil(count * width / word_bits) * bytes_per_word, and
\* succeeds whenever the length is that one and width < 8
C14_SizeMismatchRejected ==
    (kind = "buckets" /\ last.op = "from_raw") =>
        LET bits == call.count * call.bucket_size
            expected == ((bits + BITS_PER_WORD - 1) \div BITS_PER_WORD) * BYTES_PER_WORD
        IN  /\ (call.len # expected) => panicked
            /\ (call.len = expected /\ call.bucket_size < 8) => ~panicked

\* C14 witness: a buffer one word too long for an array of several words
\* was refused
C14_Witness ==
    /\ kind = "buckets" /\ last.op = "from_raw" /\ panicked
    /\ call.bucket_size < 8
    /\ call.count * call.bucket_size > BITS_PER_WORD
    /\ call.len = compute_word_num(call.count, call.bucket_size) * BYTES_PER_WORD
                      + BYTES_PER_WORD

\* C15 (as claimed): new and with_raw_data fail for a width >= 8, and an
\* array they build has max_value = 2^width - 1 and holds the words of every
\* bucket in [0, count), so that get and set of each succeed
C15_WidthRejected ==
    (kind = "buckets" /\ last.op \in {"created", "from_raw"}) =>
        /\ (call.bucket_size >= 8) => panicked
        /\ (~panicked) =>
              /\ buckets.bucket_size = call.bucket_size
              /\ buckets.max = Pow2(call.bucket_size) - 1
              /\ \A b \in 0 .. (buckets.count - 1) : InStorage(buckets, b)

\* C16 (as claimed): a constructor given items_count = 0, or an fp_rate that
\* is not strictly between 0 and 1, aborts and returns no filter or bucket
\* array
C16_ConstructionPreconditionsFatal ==
    (last.op = "construct") =>
        ((call.items_count = 0 \/ ~(0 < call.fp_rate[1] /\ call.fp_rate[1] < call.fp_rate[2]))
            => (panicked /\ kind = "none"))

\* the number whose binary digits are bits from .. from + 7 of the word
BitsAsByte(word, from) ==
    LET bit(t) == IF (from + t) \in word THEN Pow2(t) ELSE 0
    IN  bit(0) + bit(1) + bit(2) + bit(3) + bit(4) + bit(5) + bit(6) + bit(7)

\* C17: raw_data() has words * bytes_per_word bytes; the byte at position
\* w * bytes_per_word + j is bits 8j .. 8j+7 of word w; and for width 1,
\* bucket b is bit (b mod 8) of byte floor(b / 8)
C17_ByteLayout ==
    (kind = "buckets") =>
        LET raw == Buckets_raw_data(buckets)
            words == Cardinality(DOMAIN buckets.data)
        IN  /\ Len(raw) = words * BYTES_PER_WORD
            /\ \A w \in 0 .. (words - 1) : \A j \in 0 .. (BYTES_PER_WORD - 1) :
                  raw[w * BYTES_PER_WORD + j + 1] = BitsAsByte(buckets.data[w], 8 * j)
            /\ (buckets.bucket_size = 1) =>
                  \A b \in 0 .. (buckets.count - 1) :
                      Buckets_get(buckets, b) = (raw[(b \div 8) + 1] \div Pow2(b % 8)) % 2

\* a bucket past the first byte was set to 1 in a one-bit array
C17_Witness ==
    /\ kind = "buckets" /\ ~panicked
    /\ buckets.bucket_size = 1 /\ last.op = "set" /\ call.bucket >= 8
    /\ Buckets_get(buckets, call.bucket) = 1
    /\ Buckets_raw_data(buckets)[(call.bucket \div 8) + 1] # 0

\* what reset() leaves alone: kind, bucket count, width, max, k, n, seed and p
ResetKeepsShape ==
    /\ kind' = kind
    /\ buckets'.count = buckets.count
    /\ buckets'.bucket_size = buckets.bucket_size
    /\ buckets'.max = buckets.max
    /\ hash_kernels' = hash_kernels
    /\ p' = p

\* C18 (as claimed): a step of reset() leaves every bucket at 0, contains(x)
\* returning false for every item, and the shape unchanged: the array is that
\* of new(count, width)
C18_ResetClears ==
    [][(last'.op = "reset") =>
          /\ ResetKeepsShape
          /\ buckets' = Buckets_new(buckets.count, buckets.bucket_size)
          /\ AllZero(buckets')
          /\ (kind' # "buckets") =>
                /\ hash_iter_ok(hash_kernels')
                /\ \A x \in Items : ~Contains(kind', buckets', hash_kernels', x)]_vars

\* C18 (amended): as above, with contains(x) false for every item when the
\* filter has at least one bucket and at least one probe
C18_ResetClearsProbed ==
    [][(last'.op = "reset") =>
          /\ ResetKeepsShape
          /\ buckets' = Buckets_new(buckets.count, buckets.bucket_size)
          /\ AllZero(buckets')
          /\ (kind' # "buckets" /\ hash_kernels'.k >= 1 /\ buckets'.count >= 1) =>
                \A x \in Items : ~Contains(kind', buckets', hash_kernels', x)]_vars

\* C18 witness: a stable filter with buckets, probes and decay was reset
C18_Witness ==
    /\ kind = "stable" /\ ~panicked /\ last.op = "reset"
    /\ hash_kernels.k >= 1 /\ buckets.count >= 1 /\ p >= 1

\* C19: a step of insert or update of the classic filter keeps contains(y)
\* true for every item for which it was true, and no step other than reset
\* takes a bucket from 1 to 0 (a step that leaves the bucket array and the
\* kernel as they were does so trivially)
C19_ClassicMonotone ==
    [][(buckets' # buckets \/ hash_kernels' # hash_kernels) =>
          /\ (last'.op \in {"insert", "update"}) =>
                \A y \in Items :
                    (hash_iter_ok(hash_kernels) /\ Classic_contains(buckets, hash_kernels, y))
                        => Classic_contains(buckets', hash_kernels', y)
          /\ (last'.op # "reset") =>
                \A b \in 0 .. (buckets.count - 1) :
                    (Buckets_get(buckets, b) = 1) => (Buckets_get(buckets', b) = 1)]_vars

\* C19 witness: the first item is still contained after the insert of the
\* second, which set other buckets
C19_Witness ==
    /\ kind = "classic" /\ ~panicked
    /\ hist = <<Op("insert", Digest(1)), Op("insert", Digest(2))>>
    /\ hash_kernels.k >= 2
    /\ Classic_contains(buckets, hash_kernels, Digest(1))
    /\ buckets # Classic_insert(Buckets_reset(buckets), hash_kernels, Digest(1))

\* C20: a step of remove(y) lowers every bucket by the number of y's probes
\* that index it, stopping at 0, whether or not y is contained
C20_RemoveUnconditional ==
    [][(kind = "counting" /\ last'.op = "remove" /\ ~panicked') =>
          LET probes == hash_iter(hash_kernels, last'.item)
          IN  \A b \in 0 .. (buckets.count - 1) :
                  Buckets_get(buckets', b) =
                      Max(0, Buckets_get(buckets, b)
                             - Cardinality({i \in 1 .. hash_kernels.k : probes[i] = b}))]_vars

\* C20 witness: after insert(x) and remove(y) of another item, which was
\* never inserted, x is not contained: a bucket both probe is at 0
C20_Witness ==
    /\ kind = "counting" /\ ~panicked
    /\ hist = <<Op("insert", Digest(1)), Op("remove", Digest(2))>>
    /\ ~Counting_contains(buckets, hash_kernels, Digest(1))
    /\ \E i, j \in 1 .. hash_kernels.k :
          /\ hash_iter(hash_kernels, Digest(1))[i] = hash_iter(hash_kernels, Digest(2))[j]
          /\ Buckets_get(buckets, hash_iter(hash_kernels, Digest(1))[i]) = 0

\* 2^64 mod n
TwoTo64Mod(n) == (wrapping_rem(U64Max, n) + 1) % n

\* ((seed + h1 + h2 * i) mod 2^64) mod n by residues: the exact sum is below
\* 2^65, so it is reduced by 2^64 exactly when seed + (h1 + h2 * i) carries
ProbeIndex(seed, digest, i, n) ==
    LET residue == wrapping_rem(seed, n) + wrapping_rem(H1(digest), n)
                   + wrapping_rem(H2(digest), n) * i
        carries == add_overflows(seed, wrapping_add(H1(digest), wrapping_mul(H2(digest), i)))
    IN  (residue + (IF carries THEN n - TwoTo64Mod(n) ELSE 0)) % n

\* C21: hash_iter yields k indices, the i-th being
\* ((seed + h1 + h2 * i) mod 2^64) mod n, and a second call for the same
\* item yields the same sequence
C21_ProbeSequence ==
    (kind = "hash" /\ last.op = "hash_iter") =>
        /\ Len(call.probes) = hash_kernels.k
        /\ \A i \in 0 .. (hash_kernels.k - 1) :
              call.probes[i + 1] =
                  ProbeIndex(hash_kernels.hash_seed, call.item, i, hash_kernels.n)
        /\ (before.item = call.item) => (before.probes = call.probes)

\* C21 witness: the second call for a digest whose sum with the seed wraps,
\* on a kernel of three probes
C21_Witness ==
    /\ kind = "hash" /\ last.op = "hash_iter"
    /\ before.item = call.item
    /\ hash_kernels.k = 3 /\ hash_kernels.n = 7
    /\ call.item = U64Max
    /\ add_overflows(hash_kernels.hash_seed, H1(call.item))

\* C22: set(b, v) and increment(b, delta) leave get(c) as it was for every
\* bucket c other than b
C22_SetIncrementFrame ==
    (kind = "buckets" /\ last.op \in {"set", "increment"}) =>
        \A c \in 0 .. (buckets.count - 1) :
            (c # call.bucket) => (Buckets_get(buckets, c) = Buckets_get(before, c))

\* C22 witness: an increment changed a bucket lying across two words whose
\* neighbours on both sides hold values above 0
C22_Witness ==
    /\ kind = "buckets" /\ last.op = "increment" /\ ~panicked
    /\ Straddles(buckets, call.bucket)
    /\ Buckets_get(buckets, call.bucket) # Buckets_get(before, call.bucket)
    /\ call.bucket + 1 < buckets.count
    /\ Buckets_get(buckets, call.bucket - 1) > 0
    /\ Buckets_get(buckets, call.bucket + 1) > 0

\* (r + i) mod n for a draw r, the sum exact
DecayIndex(r, i, n) == (wrapping_rem(r, n) + i) % n

\* how many of i = 0 .. p-1 have (r + i) mod n = b
DecayHits(r, pn, n, b) == Cardinality({i \in 0 .. (pn - 1) : DecayIndex(r, i, n) = b})

\* C23 (as claimed): the decay step of a stable insert lowers bucket
\* (r + i) mod bucket_count by 1, stopping at 0, for each i = 0 .. p-1 and
\* changes no other bucket; after the insert a bucket that is neither decayed
\* nor a probe of the item holds what it held
C23_StableDecayStep ==
    (kind = "stable" /\ ~panicked /\ last.op = "insert") =>
        LET r == call.draw
            n == before.count
            decayed == Stable_decrement(before, p, r)
            probes == hash_iter(hash_kernels, last.item)
        IN  \A b \in 0 .. (n - 1) :
                /\ Buckets_get(decayed, b)
                      = Max(0, Buckets_get(before, b) - DecayHits(r, p, n, b))
                /\ (DecayHits(r, p, n, b) = 0 /\ \A i \in 1 .. hash_kernels.k : probes[i] # b)
                      => (Buckets_get(buckets, b) = Buckets_get(before, b))

\* C24 (as claimed): a constructed stable filter has k = bucket_count when the
\* k computed from the rate exceeds bucket_count, k = 1 when the computed k is
\* 0 and the computed k otherwise, and its k is never 0
C24_StableKClamped ==
    (last.op = "new_stable" /\ ~panicked) =>
        LET k == hash_compute_k_num(call.fp_rate)
        IN  /\ (k > call.bucket_count) => (hash_kernels.k = call.bucket_count)
            /\ (k = 0) => (hash_kernels.k = 1)
            /\ (k > 0 /\ k <= call.bucket_count) => (hash_kernels.k = k)
            /\ hash_kernels.k # 0

\* C24 (amended): the same rule, which for bucket_count = 0 takes precedence
\* over the floor at 1: k is at least 1 exactly when bucket_count is, or when
\* the computed k is 0
C24_StableKClampedToCount ==
    (last.op = "new_stable" /\ ~panicked) =>
        LET k == hash_compute_k_num(call.fp_rate)
        IN  /\ (k > call.bucket_count) => (hash_kernels.k = call.bucket_count)
            /\ (k = 0) => (hash_kernels.k = 1)
            /\ (k > 0 /\ k <= call.bucket_count) => (hash_kernels.k = k)
            /\ (hash_kernels.k = 0) <=> (call.bucket_count = 0 /\ k > 0)

\* C24 witness: a heap stable filter of one bucket built for the rate 1/4,
\* whose computed k is 2
C24_Witness ==
    /\ last.op = "new_stable" /\ ~panicked /\ kind = "stable"
    /\ call.bucket_count = 1 /\ call.fp_rate = <<1, 4>>
    /\ hash_kernels.k = 1

\* C25: on a const-generic array of 7-bit buckets, increment(b, delta) does
\* not fail and leaves get(b) = min(127, max(0, v + delta)) for every value v
\* of the bucket and every delta of the i8 range
C25_ConstSaturatingIncrement ==
    (kind = "const_buckets" /\ last.op = "increment" /\ buckets.bucket_size = 7) =>
        /\ ~panicked
        /\ ConstBuckets_get(buckets, call.bucket)
              = Min(127, Max(0, ConstBuckets_get(before, call.bucket) + call.delta))

\* C25 witness: a bucket at 127 lying across two words, incremented by 1,
\* stays at 127
C25_Witness ==
    /\ kind = "const_buckets" /\ last.op = "increment" /\ ~panicked
    /\ buckets.bucket_size = 7
    /\ Straddles(buckets, call.bucket)
    /\ ConstBuckets_get(before, call.bucket) = 127
    /\ call.delta = 1
    /\ ConstBuckets_get(buckets, call.bucket) = 127

\* C26: update(bytes) leaves every word the buffer covers equal to the old
\* word OR the word read little-endian from the buffer's 8 bytes, so a bucket
\* is set afterwards iff it was set in the receiver or in the array the
\* buffer came from; the words the buffer does not cover are unchanged, and
\* nothing fails
C26_UpdateOrsCoveredWords ==
    (kind = "const_buckets" /\ last.op = "update") =>
        /\ ~panicked
        /\ DOMAIN buckets.data = DOMAIN before.data
        /\ \A w \in DOMAIN buckets.data :
              IF (w + 1) * BYTES_PER_WORD <= Len(call.raw_data)
              THEN buckets.data[w]
                     = WOr(before.data[w], LeWord(call.raw_data, w * BYTES_PER_WORD, 0))
              ELSE buckets.data[w] = before.data[w]
        /\ \A b \in 0 .. (buckets.count - 1) :
              ConstBuckets_get(buckets, b) = 1
                  <=> \/ ConstBuckets_get(before, b) = 1
                      \/ b < call.other.count /\ ConstBuckets_get(call.other, b) = 1

\* C26 witness: the update test: 100 one-bit buckets with 0, 20 and 63 set,
\* merged with the 8 bytes of 50 one-bit buckets with 7, 20, 21 and 49 set; the
\* second word is not covered
C26_Witness ==
    /\ kind = "const_buckets" /\ last.op = "update" /\ ~panicked
    /\ before = OneBit(100, {0, 20, 63})
    /\ call.other = OneBit(50, {7, 20, 21, 49})
    /\ Len(call.raw_data) = 8
    /\ Cardinality(DOMAIN buckets.data) = 2
    /\ \A b \in {0, 7, 20, 21, 49, 63} : ConstBuckets_get(buckets, b) = 1
    /\ ConstBuckets_get(buckets, 1) = 0

\* C27 (as claimed): the classic filter the classicfilter! macro builds from
\* items_count > 0 and a rate strictly between 0 and 1 has a storage of
\* compute_word_num(16 * items_count, 1) words that holds at least its bucket
\* count, so every probe index of an item addresses a word of the storage
C27_ClassicMacroStorageHoldsBuckets ==
    (/\ kind = "const_classic" /\ last.op = "construct" /\ ~panicked
     /\ call.items_count > 0 /\ fp_rate_ok(call.fp_rate)) =>
        /\ Cardinality(DOMAIN buckets.data)
             = compute_word_num(approximate_bucket_count(call.items_count), 1)
        /\ Cardinality(DOMAIN buckets.data) * BITS_PER_WORD >= buckets.count
        /\ \A x \in Items : ProbesInStorage(buckets, hash_kernels, x)

\* the probes of the item that map to bucket b
ProbeHits(hk, item, b) ==
    Cardinality({i \in 1 .. hk.k : hash_iter(hk, item)[i] = b})

RECURSIVE OutstandingPairs(_, _, _, _)
\* the outstanding (item, probe) pairs of the items of S that map to bucket b
OutstandingPairs(S, outstanding, hk, b) ==
    IF S = {} THEN 0
    ELSE LET x == CHOOSE y \in S : TRUE
         IN  outstanding[x] * ProbeHits(hk, x, b)
                 + OutstandingPairs(S \ {x}, outstanding, hk, b)

\* C28: under balanced use of the counting filter (every remove matched by an
\* outstanding insert, no bucket ever at max_value) nothing fails, contains(x)
\* holds for every item whose inserts outnumber its removes, and every bucket
\* equals the number of outstanding (item, probe) pairs that map to it
C28_CountingBalancedUse ==
    (kind = "counting" /\ "outstanding" \in DOMAIN call) =>
        /\ ~panicked
        /\ \A x \in Items :
              call.outstanding[x] > 0 => Counting_contains(buckets, hash_kernels, x)
        /\ \A b \in 0 .. (buckets.count - 1) :
              Buckets_get(buckets, b)
                  = OutstandingPairs(Items, call.outstanding, hash_kernels, b)

\* C28 witness: after a remove, the removed item has no outstanding insert,
\* another item has one and shares a bucket with the removed item: the
\* bucket still holds the other item's pairs
C28_Witness ==
    /\ kind = "counting" /\ "outstanding" \in DOMAIN call /\ ~panicked
    /\ last.op = "remove"
    /\ call.outstanding[last.item] = 0
    /\ \E x \in Items \ {last.item} :
          /\ call.outstanding[x] > 0
          /\ \E b \in 0 .. (buckets.count - 1) :
                /\ ProbeHits(hash_kernels, x, b) > 0
                /\ ProbeHits(hash_kernels, last.item, b) > 0
                /\ Buckets_get(buckets, b) > 0
                /\ Buckets_get(buckets, b) < Buckets_get(before, b)

\* C29 (as claimed): for every value r that random() returns and every
\* i in 0..p-1, the decay index (r + i) % bucket_count is computed without
\* overflow or failure, and the p indices visited are consecutive modulo
\* bucket_count: the i-th is (r mod bucket_count + i) mod bucket_count
C29_DecayIndexArithmetic ==
    (kind = "stable" /\ buckets.count > 0) =>
        /\ ~panicked
        /\ (last.op = "insert") =>
              /\ ~decay_overflows(p, call.draw)
              /\ \A j \in 1 .. p :
                    decay_buckets(before, p, call.draw)[j]
                        = DecayIndex(call.draw, j - 1, before.count)

\* C30 (as claimed): a stable filter constructed with bucket_count >= 1, a
\* width of 1..7 and a rate strictly between 0 and 1 (k clamped to
\* bucket_count or not) has a decay count p with 1 <= p <= bucket_count
C30_StableDecayCountBounds ==
    (/\ kind \in StableVariants /\ last.op = "new_stable" /\ ~panicked
     /\ call.bucket_count >= 1 /\ call.bucket_size \in 1 .. 7
     /\ fp_rate_ok(call.fp_rate)) =>
        /\ p[2] = 0 /\ p[3] = 0 /\ p[4] = 0
        /\ 1 <= p[1] /\ p[1] <= call.bucket_count

====
